---- MODULE Spec2Model ----
(***************************************************************************)
(* Model of htslib/hfile_gcs.c: the Google Cloud Storage backend.          *)
(*                                                                         *)
(* get_gcs_access_token() and the part of gcs_rewrite() that uses its      *)
(* result are modelled as a multi-threaded state machine.  Each thread     *)
(* walks through the statements of the two functions; the static buffer    *)
(* gcs_access_token, last_access, the mutex and the environment are the    *)
(* shared state.                                                           *)
(*                                                                         *)
(* A string is the record [id, n, over]: the first n bytes of the text     *)
(* named id, followed by `over` bytes of whatever lies behind an           *)
(* unterminated buffer (0 for every terminated string).                    *)
(*                                                                         *)
(* Modelling decisions:                                                    *)
(*  - memset and strncpy are not atomic for a thread that reads the buffer *)
(*    without the mutex: the buffer is seen cleared, half copied and       *)
(*    copied (Memset, StrncpyHead, StrncpyTail).                           *)
(*  - get_gcs_access_token returns a pointer: call[t].ret holds the bytes  *)
(*    the pointer pointed at when the function returned, and the header    *)
(*    built by gcs_rewrite holds what is read through it later.            *)
(*  - the environment is changed by the application only while no call is  *)
(*    in progress, so the three getenv tests of a call are one step.       *)
(*  - the wall clock is sampled at instants that lie 3540 s and 3541 s     *)
(*    apart, the two sides of the staleness threshold.                     *)
(*  - assert() is compiled in: a failed assert ends the process.           *)
(*                                                                         *)
(* Specifications:                                                         *)
(*  - Spec: the threads, the clock and an environment that changes between *)
(*    calls.                                                               *)
(*  - SpecSetenv: Spec with the environment also changed while a thread    *)
(*    holds the mutex, the clock standing.                                 *)
(*  - FairSpec: the threads under fair scheduling, one environment per     *)
(*    behaviour, the clock standing.                                       *)
(*  - SpecRewrite: one gcs_rewrite call after another, statement by        *)
(*    statement, on URLs and modes kept as character sequences, with       *)
(*    whatever get_gcs_access_token may return.                            *)
(***************************************************************************)
EXTENDS Integers, Sequences, FiniteSets, TLC

\* ---------------------------------------------------------------- bounds

NThreads == 2          \* caller threads
MaxTick == 2           \* sampled instants of the wall clock
MaxSpawn == 2          \* credential subprocesses started in one run
ShortLen == 4          \* length of an ordinary token line
MaxOverrun == 1        \* bytes strlen may run past an unterminated buffer
Epoch == 1000          \* time(NULL) at the first sampled instant

\* ------------------------------------------------------ program constants

MAX_GCS_TOKEN_SIZE == 2048
MAX_SERVICE_TOKEN_DURATION == 3540

\* ---------------------------------------------------------------- values

Threads == 1..NThreads

NoThread == 0

\* char * values
NULL == [id |-> "NULL", n |-> 0, over |-> 0]
EmptyStr == [id |-> "", n |-> 0, over |-> 0]

Str(id, n) == IF n = 0 THEN EmptyStr ELSE [id |-> id, n |-> n, over |-> 0]

\* what getenv can give for a variable: unset, set to "", set to a text
EnvValues(id) == {NULL, EmptyStr, Str(id, ShortLen)}

\* the lines "gcloud auth application-default print-access-token" may print
\* (newline removed): an ordinary token, an empty line, a line that fills
\* the buffer exactly and one that is a byte too long
Lines ==
    { Str("tokA", ShortLen), EmptyStr,
      Str("tokF", MAX_GCS_TOKEN_SIZE), Str("tokL", MAX_GCS_TOKEN_SIZE + 1) }

NoLine == NULL

\* time(NULL) at sampled instant i: the instants are spaced so that both
\* sides of the staleness threshold occur (3540 s apart, then 1 s more)
Clock(i) ==
    Epoch + (i \div 2) * (MAX_SERVICE_TOKEN_DURATION + 1)
          + (i % 2) * MAX_SERVICE_TOKEN_DURATION

VARIABLES
    env,            \* the process environment: variable name -> char *
    tick,           \* index of the current instant of the wall clock
    lock,           \* owner of the pthread mutex, NoThread when free
    last_access,    \* static time_t last_access
    gcs_access_token, \* static char gcs_access_token[MAX_GCS_TOKEN_SIZE]
    aborted,        \* assert() failed: the process is gone
    spawned,        \* number of successful popen() calls so far
    unreaped,       \* popen()ed streams that were never pclose()d
    pc,             \* per thread: the statement it is at
    via,            \* per thread: entry point used (gcs_open / gcs_vopen)
    fp,             \* per thread: FILE *fp of the popen, open or not
    text,           \* per thread: kstring_t text of the refresh
    access_token,   \* per thread: what get_gcs_access_token returned
    call,           \* per thread: record of what the call did (history)
    opened,         \* per thread: the hopen() call made by gcs_rewrite
    rw              \* one gcs_rewrite call followed statement by statement

vars == << env, tick, lock, last_access, gcs_access_token, aborted, spawned,
           unreaped, pc, via, fp, text, access_token, call, opened, rw >>

shared == << env, tick, lock, last_access, gcs_access_token, aborted,
             spawned, unreaped >>

now == Clock(tick)

EnvNames == { "GCS_OAUTH_TOKEN", "HTS_AUTH_LOCATION",
              "GOOGLE_APPLICATION_CREDENTIALS", "GCS_REQUESTER_PAYS_PROJECT" }

getenv(name) == env[name]

\* ------------------------------------------------------- state at start

NoCall ==
    [ route |-> "idle",      \* override | sentinel | service | nocfg
      chk |-> "none",        \* outcome of the staleness test: fresh | stale
      chkLa |-> 0,           \* last_access as the test saw it
      chkNow |-> 0,          \* time(NULL) of the test
      chkBuf |-> EmptyStr,   \* the buffer as it was at the test
      chkSp |-> 0,           \* subprocesses started before the test
      outcome |-> "none",    \* nospawn | eof | stored
      spawns |-> 0,          \* subprocesses this call started
      spNo |-> 0,            \* ordinal of the subprocess this call started
      stamp |-> 0,           \* the fetch time this call wrote
      waited |-> FALSE,      \* the mutex was held by another thread at entry
      ret |-> NULL ]         \* the bytes the returned pointer pointed at

NoOpen == [ path |-> "none", colon |-> FALSE, args |-> FALSE, hdrs |-> << >> ]

\* rw where gcs_rewrite is not followed statement by statement (its token
\* and header part is then in the per-thread variables)
RwOff == [ pc |-> "off" ]

Init ==
    /\ env = [v \in EnvNames |-> NULL]
    /\ tick = 0
    /\ lock = NoThread
    /\ last_access = 0
    /\ gcs_access_token = EmptyStr
    /\ aborted = FALSE
    /\ spawned = 0
    /\ unreaped = 0
    /\ pc = [t \in Threads |-> "idle"]
    /\ via = [t \in Threads |-> "none"]
    /\ fp = [t \in Threads |-> FALSE]
    /\ text = [t \in Threads |-> NoLine]
    /\ access_token = [t \in Threads |-> "NULL"]
    /\ call = [t \in Threads |-> NoCall]
    /\ opened = [t \in Threads |-> NoOpen]
    /\ rw = RwOff

\* ------------------------------------------------------------ environment

AllIdle == \A t \in Threads : pc[t] = "idle"

EnvDomain(name) ==
    CASE name = "GCS_OAUTH_TOKEN" -> EnvValues("ovr")
      [] name = "HTS_AUTH_LOCATION" -> {NULL, Str("loc", ShortLen)}
      [] name = "GOOGLE_APPLICATION_CREDENTIALS" -> {NULL, Str("cred", ShortLen)}
      [] name = "GCS_REQUESTER_PAYS_PROJECT" -> {NULL, Str("proj", ShortLen)}

\* the application sets or unsets a variable between two opens
SetEnv ==
    /\ ~aborted
    /\ AllIdle
    /\ \E name \in EnvNames : \E v \in EnvDomain(name) :
          /\ v # env[name]
          /\ env' = [env EXCEPT ![name] = v]
    /\ UNCHANGED << tick, lock, last_access, gcs_access_token, aborted,
                    spawned, unreaped, pc, via, fp, text, access_token,
                    call, opened >>
    /\ UNCHANGED rw

\* the wall clock moves on to a later sampled instant
Tick ==
    /\ ~aborted
    /\ \E i \in (tick + 1)..MaxTick : tick' = i
    /\ UNCHANGED << env, lock, last_access, gcs_access_token, aborted,
                    spawned, unreaped, pc, via, fp, text, access_token,
                    call, opened >>
    /\ UNCHANGED rw

\* ------------------------------------------------- get_gcs_access_token

\* NeedsRefresh with >= for >
NeedsRefreshAtThreshold(la, t_now) ==
    (la = 0) \/ (la # 0 /\ t_now - la >= MAX_SERVICE_TOKEN_DURATION)

\* difftime(time(NULL), last_access) > MAX_SERVICE_TOKEN_DURATION, with the
\* "never fetched" case of last_access = 0
NeedsRefresh(la, t_now) ==
    (la = 0) \/ (la # 0 /\ t_now - la > MAX_SERVICE_TOKEN_DURATION)

\* the buffer read as a C string: up to its first NUL, which an exactly
\* full buffer does not hold
ReadToken(extra) ==
    IF gcs_access_token.n >= MAX_GCS_TOKEN_SIZE
    THEN [gcs_access_token EXCEPT !.over = extra]
    ELSE gcs_access_token

\* strncpy(gcs_access_token, src, k) into the zeroed buffer
Strncpy(src, k) ==
    Str(src.id, IF src.n < k THEN src.n ELSE k)

\* Route with the sentinel tested before the override token
RouteSentinelFirst ==
    IF getenv("HTS_AUTH_LOCATION") # NULL THEN "sentinel"
    ELSE IF getenv("GCS_OAUTH_TOKEN") # NULL THEN "override"
    ELSE IF getenv("GOOGLE_APPLICATION_CREDENTIALS") # NULL THEN "service"
    ELSE "nocfg"

\* Route with the sentinel tested after the service-account path
RouteServiceFirst ==
    IF getenv("GCS_OAUTH_TOKEN") # NULL THEN "override"
    ELSE IF getenv("GOOGLE_APPLICATION_CREDENTIALS") # NULL THEN "service"
    ELSE IF getenv("HTS_AUTH_LOCATION") # NULL THEN "sentinel"
    ELSE "nocfg"

\* lines 52-72: the three environment tests, in their order
Route ==
    IF getenv("GCS_OAUTH_TOKEN") # NULL THEN "override"
    ELSE IF getenv("HTS_AUTH_LOCATION") # NULL THEN "sentinel"
    ELSE IF getenv("GOOGLE_APPLICATION_CREDENTIALS") # NULL THEN "service"
    ELSE "nocfg"

\* Enter with the mutex taken before the override token and the sentinel
\* are looked at
EnterThroughMutex(t) ==
    /\ ~aborted
    /\ pc[t] = "idle"
    /\ opened' = [opened EXCEPT ![t] = NoOpen]
    /\ access_token' =
          [access_token EXCEPT ![t] = IF Route = "override" THEN "env" ELSE "NULL"]
    /\ call' = [call EXCEPT ![t] =
          [NoCall EXCEPT
              !.route = Route,
              !.waited = (Route = "service" /\ lock # NoThread),
              !.ret = IF Route = "override" THEN getenv("GCS_OAUTH_TOKEN")
                      ELSE NULL]]
    /\ pc' = [pc EXCEPT ![t] = IF Route = "nocfg" THEN "strlen" ELSE "lock"]
    /\ UNCHANGED << shared, via, fp, text >>
    /\ UNCHANGED rw

\* gcs_open / gcs_vopen enter gcs_rewrite, which calls get_gcs_access_token:
\* the override token is returned at once, the sentinel returns NULL, the
\* service-account path leads to the mutex, anything else to line 91
Enter(t) ==
    /\ ~aborted
    /\ pc[t] = "idle"
    /\ opened' = [opened EXCEPT ![t] = NoOpen]
    /\ access_token' =
          [access_token EXCEPT ![t] = IF Route = "override" THEN "env" ELSE "NULL"]
    /\ call' = [call EXCEPT ![t] =
          [NoCall EXCEPT
              !.route = Route,
              !.waited = (Route = "service" /\ lock # NoThread),
              !.ret = IF Route = "override" THEN getenv("GCS_OAUTH_TOKEN")
                      ELSE NULL]]
    /\ pc' = [pc EXCEPT ![t] =
          CASE Route = "override" -> "headers"
            [] Route = "sentinel" -> "headers"
            [] Route = "service" -> "lock"
            [] Route = "nocfg" -> "strlen"]
    /\ UNCHANGED << shared, via, fp, text >>
    /\ UNCHANGED rw

\* Lock as it would be without the wait for the mutex
LockNoWait(t) ==
    /\ ~aborted
    /\ pc[t] = "lock"
    /\ lock' = t
    /\ pc' = [pc EXCEPT ![t] = "check"]
    /\ UNCHANGED << env, tick, last_access, gcs_access_token, aborted,
                    spawned, unreaped, via, fp, text, access_token, call,
                    opened >>
    /\ UNCHANGED rw

\* line 73: pthread_mutex_lock
Lock(t) ==
    /\ ~aborted
    /\ pc[t] = "lock"
    /\ lock = NoThread
    /\ lock' = t
    /\ pc' = [pc EXCEPT ![t] = "check"]
    /\ UNCHANGED << env, tick, last_access, gcs_access_token, aborted,
                    spawned, unreaped, via, fp, text, access_token, call,
                    opened >>
    /\ UNCHANGED rw

\* line 74: the staleness test
Check(t) ==
    /\ ~aborted
    /\ pc[t] = "check"
    /\ LET stale == NeedsRefresh(last_access, now)
       IN /\ call' = [call EXCEPT ![t].chk = IF stale THEN "stale" ELSE "fresh",
                                  ![t].chkLa = last_access,
                                  ![t].chkNow = now,
                                  ![t].chkBuf = gcs_access_token,
                                  ![t].chkSp = spawned]
          /\ pc' = [pc EXCEPT ![t] = IF stale THEN "popen" ELSE "unlock"]
    /\ UNCHANGED << shared, via, fp, text, access_token, opened >>
    /\ UNCHANGED rw

\* line 75: popen() starts the subprocess
PopenOk(t) ==
    /\ ~aborted
    /\ pc[t] = "popen"
    /\ spawned < MaxSpawn
    /\ spawned' = spawned + 1
    /\ fp' = [fp EXCEPT ![t] = TRUE]
    /\ call' = [call EXCEPT ![t].spawns = @ + 1, ![t].spNo = spawned + 1]
    /\ pc' = [pc EXCEPT ![t] = "memset"]
    /\ UNCHANGED << env, tick, lock, last_access, gcs_access_token, aborted,
                    unreaped, via, text, access_token, opened >>
    /\ UNCHANGED rw

\* PopenFail with the buffer cleared before fp is tested
PopenFailClears(t) ==
    /\ ~aborted
    /\ pc[t] = "popen"
    /\ gcs_access_token' = EmptyStr
    /\ call' = [call EXCEPT ![t].outcome = "nospawn"]
    /\ pc' = [pc EXCEPT ![t] = "unlock"]
    /\ UNCHANGED << env, tick, lock, last_access, aborted, spawned, unreaped,
                    via, fp, text, access_token, opened >>
    /\ UNCHANGED rw

\* line 75: popen() returns NULL
PopenFail(t) ==
    /\ ~aborted
    /\ pc[t] = "popen"
    /\ call' = [call EXCEPT ![t].outcome = "nospawn"]
    /\ pc' = [pc EXCEPT ![t] = "unlock"]
    /\ UNCHANGED << shared, via, fp, text, access_token, opened >>
    /\ UNCHANGED rw

\* line 77: memset of the whole buffer
Memset(t) ==
    /\ ~aborted
    /\ pc[t] = "memset"
    /\ gcs_access_token' = EmptyStr
    /\ pc' = [pc EXCEPT ![t] = "kgetline"]
    /\ UNCHANGED << env, tick, lock, last_access, aborted, spawned, unreaped,
                    via, fp, text, access_token, call, opened >>
    /\ UNCHANGED rw

\* line 79: kgetline() reads one line
KgetlineOk(t) ==
    /\ ~aborted
    /\ pc[t] = "kgetline"
    /\ \E line \in Lines : text' = [text EXCEPT ![t] = line]
    /\ pc' = [pc EXCEPT ![t] = "pclose"]
    /\ UNCHANGED << shared, via, fp, access_token, call, opened >>
    /\ UNCHANGED rw

\* line 79: kgetline() returns EOF, the body of the if is skipped (the
\* stream stays open)
KgetlineEof(t) ==
    /\ ~aborted
    /\ pc[t] = "kgetline"
    /\ call' = [call EXCEPT ![t].outcome = "eof"]
    /\ fp' = [fp EXCEPT ![t] = FALSE]
    /\ unreaped' = unreaped + 1
    /\ pc' = [pc EXCEPT ![t] = "stamp"]
    /\ UNCHANGED << env, tick, lock, last_access, gcs_access_token, aborted,
                    spawned, via, text, access_token, opened >>
    /\ UNCHANGED rw

\* PcloseAssert without the assert
PcloseNoAssert(t) ==
    /\ ~aborted
    /\ pc[t] = "pclose"
    /\ fp' = [fp EXCEPT ![t] = FALSE]
    /\ pc' = [pc EXCEPT ![t] = "strncpy"]
    /\ UNCHANGED << env, tick, lock, last_access, gcs_access_token, aborted,
                    spawned, unreaped, via, text, access_token, call, opened >>
    /\ UNCHANGED rw

\* lines 80-81: pclose(), then the assert on the length of the line
PcloseAssert(t) ==
    /\ ~aborted
    /\ pc[t] = "pclose"
    /\ fp' = [fp EXCEPT ![t] = FALSE]
    /\ IF text[t].n <= MAX_GCS_TOKEN_SIZE
       THEN /\ pc' = [pc EXCEPT ![t] = "strncpy"]
            /\ UNCHANGED aborted
       ELSE /\ aborted' = TRUE
            /\ UNCHANGED pc
    /\ UNCHANGED << env, tick, lock, last_access, gcs_access_token, spawned,
                    unreaped, via, text, access_token, call, opened >>
    /\ UNCHANGED rw

\* the bytes strncpy has written when it is half way through src
HalfOf(src) ==
    (IF src.n < MAX_GCS_TOKEN_SIZE THEN src.n ELSE MAX_GCS_TOKEN_SIZE) \div 2

\* line 82: strncpy, the first half of the bytes
StrncpyHead(t) ==
    /\ ~aborted
    /\ pc[t] = "strncpy"
    /\ gcs_access_token' = Strncpy(text[t], HalfOf(text[t]))
    /\ pc' = [pc EXCEPT ![t] = "strncpy2"]
    /\ UNCHANGED << env, tick, lock, last_access, aborted, spawned, unreaped,
                    via, fp, text, access_token, call, opened >>
    /\ UNCHANGED rw

\* lines 82-83: strncpy, the rest of the bytes; free(text.s)
StrncpyTail(t) ==
    /\ ~aborted
    /\ pc[t] = "strncpy2"
    /\ gcs_access_token' = Strncpy(text[t], MAX_GCS_TOKEN_SIZE)
    /\ call' = [call EXCEPT ![t].outcome = "stored"]
    /\ pc' = [pc EXCEPT ![t] = "stamp"]
    /\ UNCHANGED << env, tick, lock, last_access, aborted, spawned, unreaped,
                    via, fp, text, access_token, opened >>
    /\ UNCHANGED rw

\* Stamp that leaves last_access as it was
StampSkipped(t) ==
    /\ ~aborted
    /\ pc[t] = "stamp"
    /\ call' = [call EXCEPT ![t].stamp = now]
    /\ pc' = [pc EXCEPT ![t] = "unlock"]
    /\ UNCHANGED << env, tick, lock, last_access, gcs_access_token, aborted,
                    spawned, unreaped, via, fp, text, access_token, opened >>
    /\ UNCHANGED rw

\* line 85: last_access = time(NULL)
Stamp(t) ==
    /\ ~aborted
    /\ pc[t] = "stamp"
    /\ last_access' = now
    /\ call' = [call EXCEPT ![t].stamp = now]
    /\ pc' = [pc EXCEPT ![t] = "unlock"]
    /\ UNCHANGED << env, tick, lock, gcs_access_token, aborted, spawned,
                    unreaped, via, fp, text, access_token, opened >>
    /\ UNCHANGED rw

\* Unlock as it would be if a path left the critical section with the mutex
UnlockSkipped(t) ==
    /\ ~aborted
    /\ pc[t] = "unlock"
    /\ pc' = [pc EXCEPT ![t] = "strlen"]
    /\ UNCHANGED << env, tick, lock, last_access, gcs_access_token, aborted,
                    spawned, unreaped, via, fp, text, access_token, call,
                    opened >>
    /\ UNCHANGED rw

\* line 88: pthread_mutex_unlock
Unlock(t) ==
    /\ ~aborted
    /\ pc[t] = "unlock"
    /\ lock' = NoThread
    /\ pc' = [pc EXCEPT ![t] = "strlen"]
    /\ UNCHANGED << env, tick, last_access, gcs_access_token, aborted,
                    spawned, unreaped, via, fp, text, access_token, call,
                    opened >>
    /\ UNCHANGED rw

\* line 91: strlen(gcs_access_token) > 0 decides between the address of the
\* buffer and NULL (the bytes behind an unterminated buffer do not change
\* the test: it has 2048 bytes in front of them)
Strlen(t) ==
    /\ ~aborted
    /\ pc[t] = "strlen"
    /\ IF gcs_access_token.n > 0
       THEN /\ access_token' = [access_token EXCEPT ![t] = "buf"]
            /\ call' = [call EXCEPT ![t].ret = gcs_access_token]
       ELSE /\ access_token' = [access_token EXCEPT ![t] = "NULL"]
            /\ call' = [call EXCEPT ![t].ret = NULL]
    /\ pc' = [pc EXCEPT ![t] = "headers"]
    /\ UNCHANGED << shared, via, fp, text, opened >>
    /\ UNCHANGED rw

\* ----------------------------------------------------------- gcs_rewrite

NoHdr == [name |-> "", value |-> NULL]

\* kstring_t.l of a header buffer
HdrLen(h) == IF h = NoHdr THEN 0 ELSE Len(h.name) + h.value.n + h.value.over

\* lines 132-135
AuthHdr(tok) ==
    IF tok # NULL
    THEN [name |-> "Authorization: Bearer ", value |-> tok]
    ELSE NoHdr

\* lines 137-142
RequesterPaysHdr(project) ==
    IF project # NULL
    THEN [name |-> "X-Goog-User-Project: ", value |-> project]
    ELSE NoHdr

\* lines 151-165: the headers the two hopen() calls of the options path pass
HopenHeaders(auth_hdr, requester_pays_hdr) ==
    IF HdrLen(auth_hdr) > 0 /\ HdrLen(requester_pays_hdr) > 0
    THEN << auth_hdr, requester_pays_hdr >>
    ELSE IF HdrLen(auth_hdr) > 0 THEN << auth_hdr >> ELSE << >>

\* lines 144-168: the hopen() call
Hopen(argsp, mode_has_colon, auth_hdr, requester_pays_hdr) ==
    IF argsp \/ mode_has_colon \/ HdrLen(auth_hdr) > 0
             \/ HdrLen(requester_pays_hdr) > 0
    THEN [ path |-> "options", colon |-> TRUE, args |-> argsp,
           hdrs |-> HopenHeaders(auth_hdr, requester_pays_hdr) ]
    ELSE [ path |-> "bare", colon |-> FALSE, args |-> FALSE, hdrs |-> << >> ]

\* what the pointer get_gcs_access_token returned points at, read now
Deref(ptr, extra) ==
    CASE ptr = "NULL" -> NULL
      [] ptr = "env" -> getenv("GCS_OAUTH_TOKEN")
      [] ptr = "buf" -> ReadToken(extra)

\* lines 130-168: build the headers from the returned pointer and open
Headers(t) ==
    /\ ~aborted
    /\ pc[t] = "headers"
    /\ \E extra \in 0..MaxOverrun : \E how \in {"open", "vopen"} :
          /\ via' = [via EXCEPT ![t] = how]
          /\ opened' = [opened EXCEPT ![t] =
                Hopen(how = "vopen", how = "vopen",
                      AuthHdr(Deref(access_token[t], extra)),
                      RequesterPaysHdr(getenv("GCS_REQUESTER_PAYS_PROJECT")))]
    /\ pc' = [pc EXCEPT ![t] = "done"]
    /\ UNCHANGED << shared, fp, text, access_token, call >>
    /\ UNCHANGED rw

\* lines 170-174: gcs_rewrite returns
Return(t) ==
    /\ ~aborted
    /\ pc[t] = "done"
    /\ pc' = [pc EXCEPT ![t] = "idle"]
    /\ via' = [via EXCEPT ![t] = "none"]
    /\ text' = [text EXCEPT ![t] = NoLine]
    /\ access_token' = [access_token EXCEPT ![t] = "NULL"]
    /\ call' = [call EXCEPT ![t] = NoCall]
    /\ opened' = [opened EXCEPT ![t] = NoOpen]
    /\ UNCHANGED << shared, fp >>
    /\ UNCHANGED rw

Next ==
    \/ SetEnv
    \/ Tick
    \/ \E t \in Threads :
          \/ Enter(t)
          \/ Lock(t)
          \/ Check(t)
          \/ PopenOk(t)
          \/ PopenFail(t)
          \/ Memset(t)
          \/ KgetlineOk(t)
          \/ KgetlineEof(t)
          \/ PcloseAssert(t)
          \/ StrncpyHead(t)
          \/ StrncpyTail(t)
          \/ Stamp(t)
          \/ Unlock(t)
          \/ Strlen(t)
          \/ Headers(t)
          \/ Return(t)

Spec == Init /\ [][Next]_vars

\* ------------------------------- environment changed while a call runs

\* one step of thread t
ThreadStep(t) ==
    \/ Enter(t)
    \/ Lock(t)
    \/ Check(t)
    \/ PopenOk(t)
    \/ PopenFail(t)
    \/ Memset(t)
    \/ KgetlineOk(t)
    \/ KgetlineEof(t)
    \/ PcloseAssert(t)
    \/ StrncpyHead(t)
    \/ StrncpyTail(t)
    \/ Stamp(t)
    \/ Unlock(t)
    \/ Strlen(t)
    \/ Headers(t)
    \/ Return(t)

\* the application sets or unsets a variable while a thread is inside the
\* critical section; the variables are read by getenv on each call (lines
\* 52-71) and nothing orders a setenv against a refresh in progress.  No
\* thread holds a pointer into the environment at that moment.
SetEnvDuringRefresh ==
    /\ ~aborted
    /\ lock # NoThread
    /\ \A t \in Threads : access_token[t] # "env"
    /\ \E name \in EnvNames : \E v \in EnvDomain(name) :
          /\ v # env[name]
          /\ env' = [env EXCEPT ![name] = v]
    /\ UNCHANGED << tick, lock, last_access, gcs_access_token, aborted,
                    spawned, unreaped, pc, via, fp, text, access_token,
                    call, opened >>
    /\ UNCHANGED rw

\* the clock stands still here: the calls this specification is about never
\* read it
NextSetenv ==
    \/ SetEnv
    \/ SetEnvDuringRefresh
    \/ \E t \in Threads : ThreadStep(t)

SpecSetenv == Init /\ [][NextSetenv]_vars

\* ------------------------------------------------------ fair scheduling

\* a step of thread t other than starting a call and taking the mutex
Advance(t) ==
    \/ Check(t)
    \/ PopenOk(t)
    \/ PopenFail(t)
    \/ Memset(t)
    \/ KgetlineOk(t)
    \/ KgetlineEof(t)
    \/ PcloseAssert(t)
    \/ StrncpyHead(t)
    \/ StrncpyTail(t)
    \/ Stamp(t)
    \/ Unlock(t)
    \/ Strlen(t)
    \/ Headers(t)
    \/ Return(t)

\* a thread inside a call is not left behind for ever: popen and kgetline
\* come back, and a thread that finds the mutex free again and again gets it
\* in the end.  Nothing makes a thread start a call.
Fairness ==
    \A t \in Threads : WF_vars(Advance(t)) /\ SF_vars(Lock(t))

\* the environment is whatever the application set before its threads
\* started, and stays so
InitFair ==
    /\ env \in { e \in [EnvNames -> UNION { EnvDomain(v) : v \in EnvNames }] :
                    \A v \in EnvNames : e[v] \in EnvDomain(v) }
    /\ tick = 0
    /\ lock = NoThread
    /\ last_access = 0
    /\ gcs_access_token = EmptyStr
    /\ aborted = FALSE
    /\ spawned = 0
    /\ unreaped = 0
    /\ pc = [t \in Threads |-> "idle"]
    /\ via = [t \in Threads |-> "none"]
    /\ fp = [t \in Threads |-> FALSE]
    /\ text = [t \in Threads |-> NoLine]
    /\ access_token = [t \in Threads |-> "NULL"]
    /\ call = [t \in Threads |-> NoCall]
    /\ opened = [t \in Threads |-> NoOpen]
    /\ rw = RwOff

\* the clock stands still: the first refresh is needed because last_access
\* is 0, later ones are not, and no path through the critical section
\* depends on the time otherwise
NextFair ==
    \E t \in Threads : ThreadStep(t)

FairSpec == InitFair /\ [][NextFair]_vars /\ Fairness

\* ------------------------------------- gcs_rewrite, statement by statement

\* C strings are sequences of one-character strings; a pointer into a string
\* is a 1-based index into it, so gsurl[k] of the source is CharAt(gsurl, k+1).
HttpsColon == << "h", "t", "t", "p", "s", ":" >>
StorageDownload ==
    << ".", "s", "t", "o", "r", "a", "g", "e", "-", "d", "o", "w", "n", "l", "o", "a", "d" >>
StorageUpload ==
    << ".", "s", "t", "o", "r", "a", "g", "e", "-", "u", "p", "l", "o", "a", "d" >>
Storage == << ".", "s", "t", "o", "r", "a", "g", "e" >>
GoogleApis ==
    << ".", "g", "o", "o", "g", "l", "e", "a", "p", "i", "s", ".", "c", "o", "m" >>

\* the scheme handlers registered are gs, gs+http and gs+https; << >> stands
\* for the plain gs scheme
SubSchemes == { << >>, << "h", "t", "t", "p" >>, << "h", "t", "t", "p", "s" >> }
Buckets == { << "b" >>, << "b", "k" >>, << >> }
Paths == { << >>, << "/", "o" >>, << "?", "q" >>, << "#", "f" >>, << "/", "/", "o" >>,
           << "/", "o", "?", "q", "#", "f" >> }
Modes == { << "r" >>, << "w" >>, << "a" >>, << "r", "w" >>, << "w", "r" >> }
Tokens == { NULL, EmptyStr, Str("tokA", ShortLen) }

GsUrl(sub, bkt, pth) ==
    << "g", "s" >> \o (IF sub = << >> THEN << >> ELSE << "+" >> \o sub)
                   \o << ":", "/", "/" >> \o bkt \o pth

\* s[i-1] in C: the terminating NUL sits after the last character
CharAt(s, i) == IF i <= Len(s) THEN s[i] ELSE "NUL"

\* strchr(s, c): index of the first c in s, 0 for NULL
Strchr(s, c) ==
    IF \E i \in 1..Len(s) : s[i] = c
    THEN CHOOSE i \in 1..Len(s) : s[i] = c /\ \A j \in 1..(i - 1) : s[j] # c
    ELSE 0

\* strcspn(s + from, reject)
Strcspn(s, from, reject) ==
    CHOOSE n \in 0..(Len(s) - from + 1) :
        /\ \A k \in 0..(n - 1) : s[from + k] \notin reject
        /\ CharAt(s, from + n) \in reject \cup {"NUL"}

\* kputsn(s + from, n, &k)
Kputsn(s, from, n, k) == k \o SubSeq(s, from, from + n - 1)

HostSuffixUploadFirst(mode) ==
    IF Strchr(mode, "w") # 0 THEN StorageUpload
    ELSE IF Strchr(mode, "r") # 0 THEN StorageDownload
    ELSE Storage

HostSuffixBothDefault(mode) ==
    IF Strchr(mode, "r") # 0 /\ Strchr(mode, "w") # 0 THEN Storage
    ELSE IF Strchr(mode, "r") # 0 THEN StorageDownload
    ELSE IF Strchr(mode, "w") # 0 THEN StorageUpload
    ELSE Storage

\* lines 120-122
HostSuffix(mode) ==
    IF Strchr(mode, "r") # 0 THEN StorageDownload
    ELSE IF Strchr(mode, "w") # 0 THEN StorageUpload
    ELSE Storage

HopenModeAsGiven(mode, argsp, mode_has_colon, auth_hdr, requester_pays_hdr) ==
    mode

\* lines 144-149 and 168: the mode string handed to hopen()
HopenMode(mode, argsp, mode_has_colon, auth_hdr, requester_pays_hdr) ==
    IF Hopen(argsp, mode_has_colon, auth_hdr, requester_pays_hdr).path
           = "options" /\ ~mode_has_colon
    THEN mode \o << ":" >>
    ELSE mode

\* gcs_open (line 178) passes the mode as it is and (0, NULL); gcs_vopen
\* (line 187) passes (1, &args) and a mode that hopen() recognised by its
\* modifier colon
RwCalls ==
    { [ pc |-> "scheme", how |-> how, sub |-> sub, bkt |-> bkt, pth |-> pth,
        gsurl |-> GsUrl(sub, bkt, pth),
        arg_mode |-> IF how = "vopen" THEN m \o << ":" >> ELSE m,
        mode |-> IF how = "vopen" THEN m \o << ":" >> ELSE m,
        mode_has_colon |-> (how = "vopen"), argsp |-> (how = "vopen"),
        bucket |-> 0, path |-> 0, url |-> << >>, mode_colon |-> << >>,
        access_token |-> NULL, requester_pays_project |-> NULL,
        auth_hdr |-> NoHdr, requester_pays_hdr |-> NoHdr,
        hopen |-> NoOpen, hopen_mode |-> << >> ] :
      how \in {"open", "vopen"}, sub \in SubSchemes, bkt \in Buckets,
      pth \in Paths, m \in Modes }

tokvars == << env, tick, lock, last_access, gcs_access_token, aborted,
              spawned, unreaped, pc, via, fp, text, access_token, call,
              opened >>

InitRewrite ==
    /\ env = [v \in EnvNames |-> NULL]
    /\ tick = 0
    /\ lock = NoThread
    /\ last_access = 0
    /\ gcs_access_token = EmptyStr
    /\ aborted = FALSE
    /\ spawned = 0
    /\ unreaped = 0
    /\ pc = [t \in Threads |-> "idle"]
    /\ via = [t \in Threads |-> "none"]
    /\ fp = [t \in Threads |-> FALSE]
    /\ text = [t \in Threads |-> NoLine]
    /\ access_token = [t \in Threads |-> "NULL"]
    /\ call = [t \in Threads |-> NoCall]
    /\ opened = [t \in Threads |-> NoOpen]
    /\ rw \in RwCalls

\* lines 107-114
RwScheme ==
    /\ rw.pc = "scheme"
    /\ rw' = IF CharAt(rw.gsurl, 3) = "+"
             THEN [rw EXCEPT !.pc = "slashes",
                             !.bucket = Strchr(rw.gsurl, ":") + 1,
                             !.url = Kputsn(rw.gsurl, 4,
                                        (Strchr(rw.gsurl, ":") + 1) - 4,
                                        rw.url)]
             ELSE [rw EXCEPT !.pc = "slashes",
                             !.bucket = 4,
                             !.url = rw.url \o HttpsColon]
    /\ UNCHANGED tokvars

\* line 115, one iteration of the loop
RwSlash ==
    /\ rw.pc = "slashes"
    /\ CharAt(rw.gsurl, rw.bucket) = "/"
    /\ rw' = [rw EXCEPT !.url = rw.url \o << "/" >>,
                        !.bucket = rw.bucket + 1]
    /\ UNCHANGED tokvars

\* lines 115 (loop exit) to 123
RwHost ==
    /\ rw.pc = "slashes"
    /\ CharAt(rw.gsurl, rw.bucket) # "/"
    /\ LET path == rw.bucket + Strcspn(rw.gsurl, rw.bucket, {"/", "?", "#"})
       IN  rw' = [rw EXCEPT !.pc = "path",
                            !.path = path,
                            !.url = Kputsn(rw.gsurl, rw.bucket,
                                           path - rw.bucket, rw.url)
                                    \o HostSuffix(rw.mode) \o GoogleApis]
    /\ UNCHANGED tokvars

\* line 125
RwPath ==
    /\ rw.pc = "path"
    /\ rw' = [rw EXCEPT !.pc = "token",
                        !.url = Kputsn(rw.gsurl, rw.path,
                                       Len(rw.gsurl) - rw.path + 1, rw.url)]
    /\ UNCHANGED tokvars

\* lines 130-142: whatever get_gcs_access_token() and getenv() return
RwHeaders ==
    /\ rw.pc = "token"
    /\ \E tok \in Tokens : \E project \in EnvValues("proj") :
          rw' = [rw EXCEPT !.pc = "open",
                           !.access_token = tok,
                           !.requester_pays_project = project,
                           !.auth_hdr = AuthHdr(tok),
                           !.requester_pays_hdr = RequesterPaysHdr(project)]
    /\ UNCHANGED tokvars

\* lines 144-168
RwOpen ==
    /\ rw.pc = "open"
    /\ rw' = [rw EXCEPT
                !.pc = "done",
                !.mode_colon = IF rw.mode_has_colon
                                  \/ Hopen(rw.argsp, rw.mode_has_colon,
                                           rw.auth_hdr,
                                           rw.requester_pays_hdr).path
                                       = "bare"
                               THEN << >> ELSE rw.mode \o << ":" >>,
                !.hopen = Hopen(rw.argsp, rw.mode_has_colon, rw.auth_hdr,
                                rw.requester_pays_hdr),
                !.hopen_mode = HopenMode(rw.mode, rw.argsp, rw.mode_has_colon,
                                         rw.auth_hdr, rw.requester_pays_hdr)]
    /\ UNCHANGED tokvars

\* lines 170-174, and the next call of gcs_open or gcs_vopen
RwReturn ==
    /\ rw.pc = "done"
    /\ rw' \in RwCalls
    /\ UNCHANGED tokvars

NextRewrite ==
    \/ RwScheme
    \/ RwSlash
    \/ RwHost
    \/ RwPath
    \/ RwHeaders
    \/ RwOpen
    \/ RwReturn

SpecRewrite == InitRewrite /\ [][NextRewrite]_vars

\* ================================================================ claims

\* the statements between pthread_mutex_lock and pthread_mutex_unlock
InRefresh ==
    { "check", "popen", "memset", "kgetline", "pclose", "strncpy",
      "strncpy2", "stamp", "unlock" }

AfterReturn == { "headers", "done" }

\* a line the subprocess printed that is a token: not empty, fits the buffer
IsTokenLine(l) == l.n > 0 /\ l.n <= MAX_GCS_TOKEN_SIZE

SameBytes(a, b) == a.id = b.id /\ a.n = b.n

\* the token of the Authorization header of an hopen() call, NULL without one
AuthValue(o) ==
    IF Len(o.hdrs) > 0 /\ o.hdrs[1].name = "Authorization: Bearer "
    THEN o.hdrs[1].value
    ELSE NULL

\* C1: at any moment at most one thread is between the lock and the unlock
\* (staleness test, spawn, read, write of the buffer and of the fetch time),
\* it is the owner of the mutex, and at most one subprocess stream is open.
C1_OneRefreshAtATime ==
    /\ Cardinality({t \in Threads : pc[t] \in InRefresh}) <= 1
    /\ Cardinality({t \in Threads : fp[t]}) <= 1
    /\ \A t \in Threads : pc[t] \in InRefresh => lock = t
    /\ \A t \in Threads : fp[t] => pc[t] \in InRefresh

\* one thread reads the subprocess while another waits for the mutex
C1_Witness ==
    \E t, u \in Threads :
        /\ t # u
        /\ pc[t] = "kgetline" /\ fp[t]
        /\ pc[u] = "lock"

\* C2: what a caller gets back from get_gcs_access_token and what it then
\* puts into its Authorization header is NULL or the whole of a token line
\* that a refresh stored, never a cleared or half-copied buffer.
C2_NoPartialToken ==
    \A t \in Threads :
        (pc[t] = "done" /\ call[t].route \in {"service", "nocfg"}) =>
            /\ \/ call[t].ret = NULL
               \/ \E l \in Lines : IsTokenLine(l) /\ SameBytes(call[t].ret, l)
            /\ call[t].ret # NULL =>
                   \E l \in Lines :
                       IsTokenLine(l) /\ SameBytes(AuthValue(opened[t]), l)

\* C3 (state part): after the staleness test of a service-account call,
\* a populated cache not older than 3540 s means no subprocess, no write
\* and the cached bytes returned; a cache older than 3540 s means one
\* subprocess, and when its line is a token, that line stored and returned.
C3_Post(t) ==
    LET c == call[t]
    IN (c.route = "service" /\ c.chk # "none") =>
        /\ ( c.chkBuf # EmptyStr /\ c.chkLa # 0
             /\ c.chkNow - c.chkLa <= MAX_SERVICE_TOKEN_DURATION ) =>
              /\ c.spawns = 0
              /\ pc[t] \in {"unlock", "strlen", "headers", "done"}
              /\ (pc[t] \in AfterReturn /\ spawned = c.chkSp) =>
                     c.ret = c.chkBuf
        /\ ( c.chkLa # 0
             /\ c.chkNow - c.chkLa > MAX_SERVICE_TOKEN_DURATION ) =>
              /\ pc[t] \in InRefresh \/ c.outcome # "none"
              /\ (pc[t] # "popen" /\ c.outcome # "nospawn") =>
                     (c.spawns = 1 /\ c.spNo = c.chkSp + 1)
              /\ (c.outcome = "stored" /\ IsTokenLine(text[t])) =>
                    /\ pc[t] \in {"stamp", "unlock"} =>
                           gcs_access_token = text[t]
                    /\ pc[t] = "unlock" => last_access = c.stamp
                    /\ (pc[t] \in AfterReturn /\ spawned = c.spNo) =>
                           c.ret = text[t]

\* C3: a call made while the cache is populated and at most 3540 s old
\* returns the cached token without a subprocess; a call made when it is
\* older starts exactly one subprocess, stores the line read with the
\* current time as fetch time and returns it.
C3_FreshReusedStaleRefreshed ==
    [][ \A t \in Threads :
          /\ C3_Post(t)'
          /\ (pc[t] = "stamp" /\ pc'[t] = "unlock") =>
                 (last_access' = now /\ call'[t].stamp = now) ]_vars

\* one caller was served from a cache exactly 3540 s old, another one
\* refreshed it at 3541 s and got the line it read
C3_Witness ==
    \E t, u \in Threads :
        /\ pc[t] = "done" /\ pc[u] = "done"
        /\ call[t].route = "service" /\ call[u].route = "service"
        /\ call[t].chkLa # 0
        /\ call[t].chkNow - call[t].chkLa = MAX_SERVICE_TOKEN_DURATION
        /\ call[t].spawns = 0 /\ call[t].chkBuf # EmptyStr
        /\ call[t].ret = call[t].chkBuf
        /\ call[u].chkLa # 0 /\ call[u].chkBuf # EmptyStr
        /\ call[u].chkNow - call[u].chkLa > MAX_SERVICE_TOKEN_DURATION
        /\ call[u].spawns = 1 /\ call[u].outcome = "stored"
        /\ IsTokenLine(text[u]) /\ call[u].ret = text[u]
        /\ last_access = call[u].stamp

\* C4: when one thread has refreshed the cache with a token line and another
\* thread makes its staleness test after that refresh, within 3540 s of its
\* fetch time, the second thread starts no subprocess; as long as no later
\* refresh has started, last_access is the time of that one refresh and both
\* callers return the line it read.
C4_WaiterReusesRefresh ==
    \A t, u \in Threads :
        ( /\ t # u
          /\ call[t].outcome = "stored" /\ IsTokenLine(text[t])
          /\ pc[t] \in {"unlock", "strlen", "headers", "done"}
          /\ call[u].chk # "none"
          /\ call[u].chkSp = call[t].spNo
          /\ call[u].chkNow - call[t].stamp <= MAX_SERVICE_TOKEN_DURATION ) =>
            /\ call[u].chk = "fresh"
            /\ call[u].spawns = 0
            /\ spawned = call[t].spNo =>
                  /\ last_access = call[t].stamp
                  /\ pc[t] \in AfterReturn => call[t].ret = text[t]
                  /\ pc[u] \in AfterReturn => call[u].ret = text[t]

\* two threads called while the cache was empty, the second found the mutex
\* taken; one subprocess ran and both returned its line
C4_Witness ==
    \E t, u \in Threads :
        /\ t # u
        /\ pc[t] = "done" /\ pc[u] = "done"
        /\ call[t].chk = "stale" /\ call[t].outcome = "stored"
        /\ IsTokenLine(text[t])
        /\ call[u].waited /\ call[u].chk = "fresh" /\ call[u].spawns = 0
        /\ spawned = 1
        /\ last_access = call[t].stamp
        /\ call[t].ret = text[t] /\ call[u].ret = text[t]

\* C5: a refresh of a stale, populated cache whose subprocess prints nothing
\* leaves the cached token as it was: still stored when the call unlocks,
\* returned by the call, and still stored afterwards.
C5_NoOutputKeepsCache ==
    \A t \in Threads :
        (call[t].outcome = "eof" /\ call[t].chkBuf # EmptyStr) =>
            /\ pc[t] \in {"stamp", "unlock"} =>
                   gcs_access_token = call[t].chkBuf
            /\ (pc[t] \in AfterReturn /\ spawned = call[t].spNo) =>
                   (call[t].ret = call[t].chkBuf
                    /\ gcs_access_token = call[t].chkBuf)

\* C6: a refresh whose popen() fails changes nothing: buffer and fetch time
\* are as the staleness test found them, the mutex is released, the call
\* returns the cached bytes (NULL for an empty cache) and the staleness test
\* of the next call is true again.
C6_SpawnFailureChangesNothing ==
    \A t \in Threads :
        call[t].outcome = "nospawn" =>
            /\ call[t].spawns = 0
            /\ pc[t] \in {"unlock", "strlen", "headers", "done"}
            /\ pc[t] = "unlock" <=> lock = t
            /\ (pc[t] = "unlock" \/ spawned = call[t].chkSp) =>
                  /\ gcs_access_token = call[t].chkBuf
                  /\ last_access = call[t].chkLa
                  /\ last_access = 0
                       \/ now - last_access > MAX_SERVICE_TOKEN_DURATION
            /\ (pc[t] \in AfterReturn /\ spawned = call[t].chkSp) =>
                   call[t].ret = IF call[t].chkBuf = EmptyStr THEN NULL
                                 ELSE call[t].chkBuf

\* popen() failed on a stale, populated cache; the call returned its token
C6_Witness ==
    \E t \in Threads :
        /\ pc[t] = "done"
        /\ call[t].outcome = "nospawn"
        /\ call[t].chkBuf # EmptyStr
        /\ call[t].ret = call[t].chkBuf
        /\ last_access = call[t].chkLa /\ last_access # 0

\* C7: with GCS_OAUTH_TOKEN set, get_gcs_access_token returns that string,
\* whatever the other variables and the cache are.
C7_OverrideWins ==
    \A t \in Threads :
        (pc[t] # "idle" /\ getenv("GCS_OAUTH_TOKEN") # NULL) =>
            /\ pc[t] \in AfterReturn
            /\ access_token[t] = "env"
            /\ call[t].ret = getenv("GCS_OAUTH_TOKEN")
            /\ pc[t] = "done" =>
                   AuthValue(opened[t]) = getenv("GCS_OAUTH_TOKEN")

\* the override is returned with the sentinel and the service-account path
\* set and a different, fresh token in the cache
C7_Witness ==
    \E t \in Threads :
        /\ pc[t] = "done"
        /\ getenv("GCS_OAUTH_TOKEN") \notin {NULL, EmptyStr}
        /\ getenv("HTS_AUTH_LOCATION") # NULL
        /\ getenv("GOOGLE_APPLICATION_CREDENTIALS") # NULL
        /\ gcs_access_token.n > 0
        /\ last_access # 0
        /\ now - last_access <= MAX_SERVICE_TOKEN_DURATION
        /\ call[t].ret = getenv("GCS_OAUTH_TOKEN")
        /\ call[t].ret # gcs_access_token

\* C8: with HTS_AUTH_LOCATION set and no override token, the call returns
\* NULL, takes no mutex and starts no subprocess, whatever the cache holds.
C8_SentinelReturnsNull ==
    \A t \in Threads :
        ( /\ pc[t] # "idle"
          /\ getenv("GCS_OAUTH_TOKEN") = NULL
          /\ getenv("HTS_AUTH_LOCATION") # NULL ) =>
            /\ pc[t] \in AfterReturn
            /\ access_token[t] = "NULL"
            /\ call[t].ret = NULL
            /\ call[t].spawns = 0
            /\ lock # t /\ ~fp[t]
            /\ pc[t] = "done" => AuthValue(opened[t]) = NULL

\* NULL is returned although the service-account path is set and the cache
\* holds a fresh token
C8_Witness ==
    \E t \in Threads :
        /\ pc[t] = "done"
        /\ getenv("GCS_OAUTH_TOKEN") = NULL
        /\ getenv("HTS_AUTH_LOCATION") # NULL
        /\ getenv("GOOGLE_APPLICATION_CREDENTIALS") # NULL
        /\ gcs_access_token.n > 0
        /\ last_access # 0
        /\ now - last_access <= MAX_SERVICE_TOKEN_DURATION
        /\ call[t].ret = NULL

\* the names of the headers an hopen() call was given
HdrNames(o) == [i \in 1..Len(o.hdrs) |-> o.hdrs[i].name]

\* C9: when a token was returned or a billing project is set, the open goes
\* through the options path and is given exactly the headers that exist:
\* Authorization, X-Goog-User-Project, or both in that order.
C9_ExactlyTheHeaders ==
    \A t \in Threads :
        pc[t] = "done" =>
            LET auth == access_token[t] # "NULL"
                proj == getenv("GCS_REQUESTER_PAYS_PROJECT") # NULL
            IN (auth \/ proj) =>
                 /\ opened[t].path = "options"
                 /\ HdrNames(opened[t]) =
                       (IF auth THEN << "Authorization: Bearer " >> ELSE << >>)
                       \o (IF proj THEN << "X-Goog-User-Project: " >> ELSE << >>)

\* no state holds a piece of a line longer than the buffer
NoTruncatedLine ==
    \A l \in Lines :
        l.n > MAX_GCS_TOKEN_SIZE =>
            /\ gcs_access_token.id # l.id
            /\ \A t \in Threads :
                  /\ call[t].ret.id # l.id
                  /\ AuthValue(opened[t]).id # l.id
                  /\ text[t] = l => pc[t] = "pclose"

\* C10: a line longer than 2048 bytes ends the process at the assert (no
\* step follows), and no state holds a truncated piece of such a line in the
\* cache, in a returned value or in a header.
C10_LongLineAborts ==
    [][ /\ ~aborted
        /\ NoTruncatedLine'
        /\ \A t \in Threads :
              ( /\ pc[t] = "pclose" /\ text[t].n > MAX_GCS_TOKEN_SIZE
                /\ fp[t] /\ ~fp'[t] ) => aborted' ]_vars

\* the process was aborted on a line of 2049 bytes, the cache is empty
C10_Witness ==
    \E t \in Threads :
        /\ aborted
        /\ text[t].n > MAX_GCS_TOKEN_SIZE
        /\ gcs_access_token = EmptyStr

\* C11: with none of GCS_OAUTH_TOKEN, HTS_AUTH_LOCATION and
\* GOOGLE_APPLICATION_CREDENTIALS set at the time of the call,
\* get_gcs_access_token returns NULL, whatever earlier calls left in the
\* cache.
C11_NoConfigReturnsNull ==
    \A t \in Threads :
        ( /\ pc[t] \in AfterReturn
          /\ getenv("GCS_OAUTH_TOKEN") = NULL
          /\ getenv("HTS_AUTH_LOCATION") = NULL
          /\ getenv("GOOGLE_APPLICATION_CREDENTIALS") = NULL ) =>
            (access_token[t] = "NULL" /\ call[t].ret = NULL)

\* ------------------------------------------------ claims about gcs_rewrite

Contains(mode, c) == \E i \in 1..Len(mode) : mode[i] = c

RwTransport == IF rw.sub = << >> THEN << "h", "t", "t", "p", "s" >> ELSE rw.sub

\* transport + "://" + bucket + suffix + ".googleapis.com" + path, from the
\* parts the input URL was written with
TargetUrl(suffix) ==
    RwTransport \o << ":", "/", "/" >> \o rw.bkt \o suffix \o GoogleApis
                \o rw.pth

RwUrlBuilt == rw.pc \in {"token", "open", "done"}

\* C12: for an input gs[+sub]://bucket<path> with a bucket name and any
\* mode, the rewritten URL is transport://bucket + hostSuffix +
\* .googleapis.com + path, the transport being the subscheme when there is
\* one and https otherwise, the bucket ending at the first '/', '?' or '#',
\* and hostSuffix being .storage-download when the mode contains 'r', else
\* .storage-upload when it contains 'w', else .storage.
C12_TargetUrl ==
    (RwUrlBuilt /\ rw.bkt # << >>) =>
        rw.url = TargetUrl(IF Contains(rw.arg_mode, "r") THEN StorageDownload
                           ELSE IF Contains(rw.arg_mode, "w")
                                THEN StorageUpload
                                ELSE Storage)

C12_Witness ==
    /\ rw.pc = "done"
    /\ rw.gsurl = << "g", "s", "+", "h", "t", "t", "p", ":", "/", "/",
                     "b", "k", "/", "o", "?", "q", "#", "f" >>
    /\ rw.arg_mode = << "w" >>
    /\ rw.url = << "h", "t", "t", "p", ":", "/", "/", "b", "k" >>
                \o StorageUpload \o GoogleApis
                \o << "/", "o", "?", "q", "#", "f" >>

\* C13 as stated: a mode containing both 'r' and 'w' gives the default host
\* bucket.storage.googleapis.com.
C13_BothGivesDefaultHost ==
    ( /\ RwUrlBuilt
      /\ rw.bkt # << >>
      /\ Contains(rw.arg_mode, "r")
      /\ Contains(rw.arg_mode, "w") ) => rw.url = TargetUrl(Storage)

\* C13 amended: a mode containing both 'r' and 'w' gives the download host
\* bucket.storage-download.googleapis.com, 'r' being tested first.
C13_BothGivesDownloadHost ==
    ( /\ RwUrlBuilt
      /\ rw.bkt # << >>
      /\ Contains(rw.arg_mode, "r")
      /\ Contains(rw.arg_mode, "w") ) => rw.url = TargetUrl(StorageDownload)

C13_Witness ==
    /\ rw.pc = "done"
    /\ rw.gsurl = << "g", "s", ":", "/", "/", "b", "/", "o" >>
    /\ rw.arg_mode = << "w", "r" >>
    /\ rw.url = << "h", "t", "t", "p", "s", ":", "/", "/", "b" >>
                \o StorageDownload \o GoogleApis \o << "/", "o" >>

\* C17: gcs_rewrite calls hopen(url, mode) with the caller's mode and no
\* options exactly when it was entered through gcs_open (no va_list, no
\* modifier colon), get_gcs_access_token returned NULL and
\* GCS_REQUESTER_PAYS_PROJECT is unset; in every other case it calls hopen
\* with options and a mode whose last character is ':', built in a buffer of
\* its own, the caller's mode string staying as it was.
C17_BareIffNothingToPass ==
    rw.pc = "done" =>
        /\ rw.hopen.path \in {"bare", "options"}
        /\ rw.hopen.path = "bare" <=>
              ( /\ rw.how = "open"
                /\ rw.access_token = NULL
                /\ rw.requester_pays_project = NULL )
        /\ rw.hopen.path = "bare" =>
              ( /\ rw.hopen_mode = rw.arg_mode
                /\ rw.hopen.hdrs = << >>
                /\ ~rw.hopen.args )
        /\ rw.hopen.path = "options" =>
              ( /\ rw.hopen_mode # << >>
                /\ rw.hopen_mode[Len(rw.hopen_mode)] = ":"
                /\ rw.hopen_mode \in {rw.arg_mode, rw.arg_mode \o << ":" >>} )
        /\ rw.mode = rw.arg_mode

C17_Witness ==
    /\ rw.pc = "done"
    /\ rw.how = "open"
    /\ rw.access_token = NULL
    /\ rw.requester_pays_project = Str("proj", ShortLen)
    /\ rw.arg_mode = << "r" >>
    /\ rw.hopen.path = "options"
    /\ rw.hopen_mode = << "r", ":" >>

\* C14: last_access is written only by a refresh whose kgetline read a line;
\* when a refresh is about to release the mutex after popen failed or
\* after the subprocess printed nothing, last_access is what it was when
\* the refresh tested it.
C14_StampOnlyWithToken ==
    \A t \in Threads :
        (pc[t] = "unlock" /\ call[t].outcome \in {"nospawn", "eof"}) =>
            last_access = call[t].chkLa

\* C15: a call whose staleness test finds gcs_access_token empty goes on to
\* popen, whatever last_access holds; so does the call that follows a
\* refresh that obtained no token.
C15_EmptyCacheAlwaysRefreshes ==
    \A t \in Threads :
        (call[t].chk # "none" /\ call[t].chkBuf = EmptyStr) =>
            call[t].chk = "stale"

\* C16: a stream opened by popen is closed by pclose before the call that
\* opened it returns: no thread outside the critical section has fp open,
\* and with no call in progress no stream is left unclosed.
C16_EverySubprocessReclaimed ==
    /\ \A t \in Threads : pc[t] \notin InRefresh => ~fp[t]
    /\ AllIdle => unreaped = 0

\* C20: gcs_access_token always holds a NUL within its 2048 bytes, so the
\* token in it is shorter than 2048 bytes and no reader runs past the
\* buffer.
C20_TokenTerminated ==
    /\ gcs_access_token.n < MAX_GCS_TOKEN_SIZE
    /\ \A t \in Threads : AuthValue(opened[t]).over = 0

\* C18: a call answered from GCS_OAUTH_TOKEN or stopped by HTS_AUTH_LOCATION
\* never takes the mutex and never starts a subprocess, its steps leave
\* gcs_access_token, last_access and the mutex as they are, and it is never
\* made to wait: it enters, builds its headers and returns also while
\* another thread holds the mutex.
C18_Bypass(t) ==
    call[t].route \in {"override", "sentinel"} =>
        /\ pc[t] \in AfterReturn
        /\ lock # t
        /\ ~fp[t]
        /\ call[t].spawns = 0
        /\ call[t].chk = "none"
        /\ ~aborted => ENABLED (Headers(t) \/ Return(t))

C18_BypassStep(t) ==
    (pc'[t] # pc[t] /\ call'[t].route \in {"override", "sentinel"}) =>
        UNCHANGED << lock, last_access, gcs_access_token, spawned, unreaped >>

C18_EnvRoutesBypassCache ==
    /\ [](\A t \in Threads : C18_Bypass(t))
    /\ [](\A t \in Threads :
            (pc[t] = "idle" /\ ~aborted
               /\ (getenv("GCS_OAUTH_TOKEN") # NULL
                     \/ getenv("HTS_AUTH_LOCATION") # NULL)) =>
                ENABLED (Enter(t) /\ call'[t].route \in {"override", "sentinel"}))
    /\ [][\A t \in Threads : C18_BypassStep(t)]_vars

C18_Witness ==
    \E t, u \in Threads :
        /\ t # u
        /\ lock = u
        /\ pc[u] = "kgetline"
        /\ call[t].route = "override"
        /\ pc[t] = "done"
        /\ AuthValue(opened[t]) = getenv("GCS_OAUTH_TOKEN")

InToken == InRefresh \cup {"lock", "strlen"}

\* a thread that holds the mutex is inside the critical section, and while
\* the process lives a thread inside a call has a step to take or waits for
\* a mutex whose holder has one
C19_MutexReleased ==
    /\ lock # NoThread => pc[lock] \in InRefresh
    /\ \A t \in Threads :
          (pc[t] # "idle" /\ ~aborted) =>
              \/ ENABLED (Lock(t) \/ Advance(t))
              \/ pc[t] = "lock" /\ lock # NoThread /\ lock # t
                               /\ ENABLED Advance(lock)

\* C19 as stated: under fair scheduling every call of get_gcs_access_token
\* returns, and the mutex is never left held.
C19_EveryCallReturns ==
    /\ \A t \in Threads : (pc[t] \in InToken) ~> (pc[t] \in AfterReturn)
    /\ []C19_MutexReleased

\* C19 amended: under fair scheduling every call of get_gcs_access_token
\* returns unless the assert on the length of the line read ends the
\* process; the mutex is held only by a thread inside the critical section,
\* and while the process lives no caller is stuck.
C19_EveryCallReturnsOrAborts ==
    /\ \A t \in Threads :
          (pc[t] \in InToken) ~> (pc[t] \in AfterReturn \/ aborted)
    /\ []C19_MutexReleased

C19_Witness ==
    \E t \in Threads :
        /\ pc[t] \in AfterReturn
        /\ call[t].route = "service"
        /\ call[t].waited
        /\ call[t].outcome = "eof"
        /\ lock # t

====
